---- MODULE Spec2Model ----
(***************************************************************************)
(* A model of the command/path security boundary of the Kasm MCP server:   *)
(* RootsValidator (src/src/security/roots.py) and the three tool handlers  *)
(* of src/src/server.py that call it before forwarding to the remote       *)
(* client's exec_command.                                                  *)
(*                                                                         *)
(* Strings.  A Python str is modelled as a sequence of lexemes.  Every     *)
(* character the code inspects is a lexeme of its own: "/", ".", " ", "'", *)
(* "|", ";", "&", "$", "(", "{", ">", "<", the backtick (BACKTICK) and the  *)
(* null byte (NUL).                                                        *)
(* A run of other characters (letters, digits, "-", "_") is one lexeme,    *)
(* split where one name is a proper prefix of another ("kasm-user2" is     *)
(* <<"kasm-user", "2">>, "etcetera" is <<"etc", "etera">>), so that        *)
(* str.startswith and the "in" substring test give, on lexemes, the answer *)
(* they give on characters.                                                *)
(***************************************************************************)
EXTENDS Integers, Sequences, FiniteSets, TLC

VARIABLES
    allowed_roots,  \* RootsValidator.allowed_roots: a set of resolved paths
    call,           \* the most recent call of a RootsValidator method and what it returned
    env,            \* the value of the environment variable KASM_ALLOWED_ROOTS
    initialized,    \* server.py: kasm_client and roots_validator are set
    pc,             \* position of the tool handler invocation in flight
    tool,           \* the handler that is running
    req,            \* its arguments
    pending,        \* the commands it still has to forward
    events,         \* what the invocation did so far: validations and exec_command calls
    returned,       \* what its exec_command calls came back with, in order
    scan,           \* the loop of an is_path_allowed call that another thread can interleave
    http,           \* the request of KasmAPIClient._make_request in flight and its outcome
    result          \* the dict the handler returned

vars ==
    <<allowed_roots, call, env, initialized, pc, tool, req, pending, events, returned,
      scan, http, result>>

serverVars ==
    <<env, initialized, pc, tool, req, pending, events, returned, scan, http, result>>

(***************************************************************************)
(* Bounds of the model.                                                    *)
(***************************************************************************)
\* the longest generated path, in segments
MaxSegs == 3

\* the longest generated command, in lexemes
MaxCmdLen == 3

(***************************************************************************)
(* Python's None, for an Optional[str] argument or return value.           *)
(***************************************************************************)
None == <<"None">>

\* the backtick character
BACKTICK == "BACKTICK"

\* the null byte, which makes os.path.realpath raise ValueError
NUL == "NUL"

(***************************************************************************)
(* str operations.                                                         *)
(***************************************************************************)
\* s.startswith(p)
StartsWith(s, p) == Len(p) <= Len(s) /\ SubSeq(s, 1, Len(p)) = p

\* p in s
Contains(s, p) ==
    \E i \in 0..(Len(s) - Len(p)) : SubSeq(s, i + 1, i + Len(p)) = p

RECURSIVE Split(_, _)
\* s.split(sep) for a one-lexeme separator: the pieces between separators
Split(s, sep) ==
    IF \A i \in 1..Len(s) : s[i] # sep
    THEN <<s>>
    ELSE LET k == CHOOSE i \in 1..Len(s) :
                      s[i] = sep /\ \A j \in 1..(i - 1) : s[j] # sep
         IN <<SubSeq(s, 1, k - 1)>> \o Split(SubSeq(s, k + 1, Len(s)), sep)

RECURSIVE Join(_)
\* str(path) of an absolute path given by its segments
Join(segs) ==
    IF segs = <<>> THEN <<>>
    ELSE <<"/">> \o Head(segs) \o Join(Tail(segs))

\* str(PosixPath): "/" for the root directory
PathStr(p) == IF p = <<>> THEN <<"/">> ELSE Join(p)

(***************************************************************************)
(* pathlib.  A resolved path is the sequence of its segments below "/".    *)
(***************************************************************************)
\* os.getcwd() of the server process
Cwd == << <<"opt">>, <<"kasm-mcp">> >>

\* the symbolic links of the server's file system: link |-> resolved target
Symlinks ==
    { [link   |-> << <<"home">>, <<"kasm-user">>, <<"link">> >>,
       target |-> << <<"etc">> >>] }

IsSymlink(p) == \E l \in Symlinks : l.link = p

ReadLink(p) == (CHOOSE l \in Symlinks : l.link = p).target

\* PurePosixPath(s).parts without the anchor: empty and "." segments are dropped
Parts(s) ==
    SelectSeq(Split(s, "/"), LAMBDA seg : seg # <<>> /\ seg # <<".">>)

IsAbsolute(s) == s # <<>> /\ s[1] = "/"

RECURSIVE Walk(_, _)
\* os.path.realpath: ".." steps to the parent, a symbolic link to its target
Walk(cur, parts) ==
    IF parts = <<>> THEN cur
    ELSE LET seg == Head(parts)
             nxt == Append(cur, seg)
         IN IF seg = <<".", ".">>
            THEN Walk(IF cur = <<>> THEN <<>> ELSE SubSeq(cur, 1, Len(cur) - 1),
                      Tail(parts))
            ELSE IF IsSymlink(nxt)
                 THEN Walk(ReadLink(nxt), Tail(parts))
                 ELSE Walk(nxt, Tail(parts))

\* Path(s).resolve() raises: TypeError for None, ValueError for an embedded null byte
ResolveRaises(s) == s = None \/ \E i \in 1..Len(s) : s[i] = NUL

\* resolve() that takes a relative path from the file system's root
Resolve_FromRoot(s) == Walk(<<>>, Parts(s))

\* Path(s).resolve(), where it does not raise
Resolve(s) == Walk(IF IsAbsolute(s) THEN <<>> ELSE Cwd, Parts(s))

\* RelativeTo as a comparison of the two strings, without the segment boundary
RelativeTo_StringPrefix(target, root) ==
    StartsWith(PathStr(target), PathStr(root))

\* target.relative_to(root) does not raise ValueError
RelativeTo(target, root) ==
    Len(root) <= Len(target) /\ SubSeq(target, 1, Len(root)) = root

(***************************************************************************)
(* RootsValidator.                                                         *)
(***************************************************************************)
\* __init__ with the try around the whole loop: the first root that raises ends it
Construct_StopAtFirstFailure(raw_roots) ==
    LET roots == IF raw_roots = None
                 THEN << <<"/", "home", "/", "kasm-user">> >>
                 ELSE raw_roots
    IN { Resolve(roots[i]) :
           i \in { j \in 1..Len(roots) : \A k \in 1..j : ~ResolveRaises(roots[k]) } }

\* __init__: the default list for None; each root resolved, one that raises is skipped
Construct(raw_roots) ==
    LET roots == IF raw_roots = None
                 THEN << <<"/", "home", "/", "kasm-user">> >>
                 ELSE raw_roots
    IN { Resolve(roots[i]) : i \in { j \in 1..Len(roots) : ~ResolveRaises(roots[j]) } }

\* is_path_allowed that takes an empty root set for "no restriction"
is_path_allowed_EmptyAllowsAll(roots, path) ==
    IF ResolveRaises(path) THEN FALSE
    ELSE roots = {} \/ \E root \in roots : RelativeTo(Resolve(path), root)

\* is_path_allowed that answers True when resolve raises
is_path_allowed_FailOpen(roots, path) ==
    ResolveRaises(path) \/ \E root \in roots : RelativeTo(Resolve(path), root)

\* is_path_allowed: the resolved path is relative to some root; False when resolve raises
is_path_allowed(roots, path) ==
    IF ResolveRaises(path) THEN FALSE
    ELSE \E root \in roots : RelativeTo(Resolve(path), root)

\* dangerous_patterns without the "/.." variant of directory traversal
dangerous_patterns_NoSlashDotDot ==
    << <<".", ".", "/">>, <<"|">>, <<";">>, <<"&", "&">>, <<"|", "|">>,
       <<BACKTICK>>, <<"$", "(">>, <<"$", "{">>, <<">", ">">>, <<">">>, <<"<">> >>

\* the list without the redirections >> and >
dangerous_patterns_NoRedirection ==
    << <<".", ".", "/">>, <<"/", ".", ".">>, <<"|">>, <<";">>, <<"&", "&">>,
       <<"|", "|">>, <<BACKTICK>>, <<"$", "(">>, <<"$", "{">>, <<"<">> >>

\* validate_command's list of patterns, in the order it tries them
dangerous_patterns ==
    << <<".", ".", "/">>,
       <<"/", ".", ".">>,
       <<"|">>,
       <<";">>,
       <<"&", "&">>,
       <<"|", "|">>,
       <<BACKTICK>>,
       <<"$", "(">>,
       <<"$", "{">>,
       <<">", ">">>,
       <<">">>,
       <<"<">> >>

\* what a call returned: "allow" for a validation that returned without raising,
\* else the kind of SecurityError by its message, with the text the message embeds
Allow == [kind |-> "allow", detail |-> <<>>]

Deny(kind, detail) == [kind |-> kind, detail |-> detail]

\* Python truthiness of an Optional[str]
Truthy(s) == s # None /\ s # <<>>

\* is_path_allowed that keeps each path it allowed as a root of its own
roots_after_check_Remembering(roots, path) ==
    IF is_path_allowed(roots, path) THEN roots \cup {Resolve(path)} ELSE roots

\* self.allowed_roots after is_path_allowed, which every validating method goes
\* through: the loop over the roots reads the set and assigns nothing
roots_after_check(roots, path) == roots

\* validate_command that never looks at the working directory
validate_command_WorkingDirUnchecked(roots, command, working_dir) ==
    LET hits == { i \in 1..Len(dangerous_patterns) :
                      Contains(command, dangerous_patterns[i]) }
    IN IF hits # {}
       THEN Deny("DangerousPattern",
                 dangerous_patterns[CHOOSE i \in hits : \A j \in hits : i <= j])
       ELSE Allow

\* validate_command that checks the working directory even when none is given
validate_command_WorkingDirAlways(roots, command, working_dir) ==
    LET hits == { i \in 1..Len(dangerous_patterns) :
                      Contains(command, dangerous_patterns[i]) }
    IN IF hits # {}
       THEN Deny("DangerousPattern",
                 dangerous_patterns[CHOOSE i \in hits : \A j \in hits : i <= j])
       ELSE IF ~is_path_allowed(roots, working_dir)
            THEN Deny("PathOutsideRoots", working_dir)
            ELSE Allow

\* validate_command: the first pattern found in the command, then the working directory
validate_command(roots, command, working_dir) ==
    LET hits == { i \in 1..Len(dangerous_patterns) :
                      Contains(command, dangerous_patterns[i]) }
    IN IF hits # {}
       THEN Deny("DangerousPattern",
                 dangerous_patterns[CHOOSE i \in hits : \A j \in hits : i <= j])
       ELSE IF Truthy(working_dir) /\ ~is_path_allowed(roots, working_dir)
            THEN Deny("PathOutsideRoots", working_dir)
            ELSE Allow

\* validate_file_operation's list of sensitive locations
sensitive_paths ==
    << <<"/", "etc">>, <<"/", "usr">>, <<"/", "bin">>, <<"/", "sbin">>,
       <<"/", "lib">>, <<"/", "proc">>, <<"/", "sys">>, <<"/", "dev">>,
       <<".", "ssh">>, <<".", "gnupg">> >>

\* SensitiveHit without the test for a segment inside the path
SensitiveHit_PrefixOnly(path_str, sensitive) == StartsWith(path_str, sensitive)

\* the test of one sensitive location against str(Path(file_path).resolve())
SensitiveHit(path_str, sensitive) ==
    \/ StartsWith(path_str, sensitive)
    \/ Contains(path_str, <<"/">> \o sensitive \o <<"/">>)

\* validate_file_operation that checks containment for a write only
validate_file_operation_WriteOnly(roots, file_path, operation) ==
    IF operation # "write" THEN Allow
    ELSE IF ~is_path_allowed(roots, file_path)
         THEN Deny("PathOutsideRoots", file_path)
         ELSE IF \E i \in 1..Len(sensitive_paths) :
                     SensitiveHit(PathStr(Resolve(file_path)), sensitive_paths[i])
              THEN Deny("SensitiveWriteTarget", file_path)
              ELSE Allow

\* validate_file_operation: containment, then for a write the sensitive locations
validate_file_operation(roots, file_path, operation) ==
    IF ~is_path_allowed(roots, file_path)
    THEN Deny("PathOutsideRoots", file_path)
    ELSE IF /\ operation = "write"
            /\ \E i \in 1..Len(sensitive_paths) :
                   SensitiveHit(PathStr(Resolve(file_path)), sensitive_paths[i])
         THEN Deny("SensitiveWriteTarget", file_path)
         ELSE Allow

\* get_safe_path without the containment test of line 159
get_safe_path_Unchecked(roots, path) ==
    IF ResolveRaises(path) THEN None ELSE PathStr(Resolve(path))

\* get_safe_path: str of the resolved path if that is allowed, else None
get_safe_path(roots, path) ==
    IF ResolveRaises(path) THEN None
    ELSE IF is_path_allowed(roots, PathStr(Resolve(path)))
         THEN PathStr(Resolve(path))
         ELSE None

\* add_root that stores the root as given, without resolve()
add_root_Unresolved(roots, root) ==
    IF ResolveRaises(root) THEN roots ELSE roots \cup {Parts(root)}

\* add_root: the resolved root joins the set; False when resolve raises
add_root(roots, root) ==
    IF ResolveRaises(root) THEN roots ELSE roots \cup {Resolve(root)}

\* add_root's return value if it told whether the root was new
add_root_returns_NewlyAdded(roots, root) ==
    ~ResolveRaises(root) /\ Resolve(root) \notin roots

\* add_root's return value: True unless resolve raises
add_root_returns(roots, root) == ~ResolveRaises(root)

\* remove_root that drops every root inside the given one as well
remove_root_Subtree(roots, root) ==
    IF ResolveRaises(root) THEN roots
    ELSE { r \in roots : ~RelativeTo(r, Resolve(root)) }

\* remove_root: the resolved root leaves the set if it is a member
remove_root(roots, root) ==
    IF ResolveRaises(root) THEN roots ELSE roots \ {Resolve(root)}

\* remove_root's return value: True if the resolved root was a member
remove_root_returns(roots, root) ==
    ~ResolveRaises(root) /\ Resolve(root) \in roots

(***************************************************************************)
(* The inputs the model draws from.                                        *)
(***************************************************************************)
HomeDir == <<"/", "home", "/", "kasm-user">>

Workspace == <<"/", "workspace">>

\* all sequences over S of length 1..n
SeqsUpTo(S, n) == UNION { [1..k -> S] : k \in 1..n }

\* the segments of the generated paths
SegAlphabet ==
    { <<"home">>, <<"kasm-user">>, <<"kasm-user", "2">>, <<".", "ssh">>,
      <<".", ".">>, <<"etc">> }

GenPaths == { Join(segs) : segs \in SeqsUpTo(SegAlphabet, MaxSegs) }

ExamplePaths ==
    { <<"/">>,
      <<>>,
      HomeDir,
      HomeDir \o <<"/">>,
      HomeDir \o <<"/", "x">>,
      HomeDir \o <<"2", "/", "x">>,
      HomeDir \o <<"/", "notes", ".", "txt">>,
      HomeDir \o <<"/", ".", "ssh", "/", "authorized_keys">>,
      HomeDir \o <<"/", ".", "ssh">>,
      HomeDir \o <<"/", ".", "sshd", "/", "x">>,
      HomeDir \o <<"/", ".", "gnupg", "/", "key">>,
      HomeDir \o <<"/", "usr", "/", "x">>,
      HomeDir \o <<"/", "link", "/", "x">>,
      HomeDir \o <<"/", ".", "/", "x", "/", "/", "y">>,
      HomeDir \o <<"/", "x", NUL>>,
      HomeDir \o <<"/", "x", "'", ";", "id", ";", "'">>,
      Workspace \o <<"/", "project", "/", "file", ".", "py">>,
      <<"/", "etc", "/", "passwd">>,
      <<"/", "etc", "etera", "/", "x">>,
      <<"/", "usr", "/", "lib", "/", "x">>,
      <<"/", "dev", "/", "null">>,
      <<"/", "root", "/", ".", "bashrc">>,
      <<"/", "root", "/", ".", "ssh", "/", "id_rsa">>,
      <<"notes", ".", "txt">>,
      <<".", ".", "/", ".", ".", "/", "etc", "/", "passwd">> }

Paths == GenPaths \cup ExamplePaths

Operations == {"read", "write", "access"}

\* the lexemes of the generated commands
CmdAlphabet == {"x", ".", "/", "&", "|"}

GenCommands == SeqsUpTo(CmdAlphabet, MaxCmdLen)

ExampleCommands ==
    { <<"sudo", " ", "rm", " ", "-", "rf", " ", "/">>,
      <<"/", "usr", "/", "bin", "/", "sudo", " ", "rm", " ", "-", "rf", " ", "/">>,
      <<"mount", " ", "/", "dev", "/", "sda1", " ">> \o HomeDir,
      <<"chmod", " ", "777", " ", "/", "etc", "/", "passwd">>,
      <<"cat", " ", "/", "etc", "/", "shadow">>,
      <<"cat", " ", "/", "etc", "/", "sudoers">>,
      <<"cat", " ", "/", "root", "/", "notes", ".", "txt">>,
      <<"ls", " ", "-", "la", " ">> \o HomeDir,
      <<"ls", " ", "-", "la", " ">> \o HomeDir \o <<"2">>,
      <<"echo", " ", "'", "Hello", " ", "World", "'">>,
      <<"python3", " ">> \o HomeDir \o <<"/", "script", ".", "py">>,
      <<"cat", " ">> \o HomeDir \o <<"/", ".", ".", "/", "x">>,
      <<"cat", " ", ".", ".", "/", "x">>,
      <<"ls", " ">> \o HomeDir \o <<"/", ".", ".">>,
      <<"ls", " ", "|", " ", "grep", " ", "x">>,
      <<"ls", ";", "id">>,
      <<"true", " ", "&", "&", " ", "id">>,
      <<"false", " ", "|", "|", " ", "id">>,
      <<"echo", " ", BACKTICK, "id", BACKTICK>>,
      <<"echo", " ", "$", "(", "id", ")">>,
      <<"echo", " ", "$", "{", "HOME", "}">>,
      <<"echo", " ", "x", " ", ">", ">", " ">> \o HomeDir \o <<"/", "log">>,
      <<"echo", " ", "x", " ", ">", " ">> \o HomeDir \o <<"/", "out">>,
      <<"sort", " ", "<", " ">> \o HomeDir \o <<"/", "in">>,
      <<"sleep", " ", "1", " ", "&">>,
      <<"echo", " ", "$", "HOME">> }

Commands == GenCommands \cup ExampleCommands

WorkingDirs ==
    { None, <<>>, HomeDir, HomeDir \o <<"2">>, <<"/", "etc">>,
      HomeDir \o <<"/", "x", NUL>> }

\* the base directories a caller of get_safe_path may want to pass
BaseDirs == { None, HomeDir }

\* the root strings given to add_root and remove_root
RawRoots ==
    { HomeDir, HomeDir \o <<"/", "project", "/", ".", ".">>, Workspace, <<"/">>,
      <<"data">>, HomeDir \o <<NUL>> }

\* the lists a RootsValidator is constructed from
RootConfigs ==
    { None, <<>>, <<HomeDir>>, <<HomeDir, Workspace>>, <<HomeDir, HomeDir \o <<"/">>>>,
      <<HomeDir \o <<NUL>>, HomeDir>>, << <<"/">> >> }

(***************************************************************************)
(* `call' records one call of a RootsValidator method: its arguments and   *)
(* what it returned ("True", "False", "None", a path, "allow" or the kind  *)
(* of the SecurityError raised).  The methods are synchronous: a call runs *)
(* to its end in one step, and the record stands until the caller takes    *)
(* the result (Return).  `before' is the root set the call found,          *)
(* `base_dir' a second positional argument given to get_safe_path, and     *)
(* `raw_roots' the list given to the constructor.                          *)
(***************************************************************************)
Call(op, command, working_dir, path, operation, ret) ==
    [op |-> op, command |-> command, working_dir |-> working_dir,
     path |-> path, operation |-> operation, ret |-> ret,
     before |-> allowed_roots, base_dir |-> None, raw_roots |-> None]

NoCall ==
    [op |-> "none", command |-> <<>>, working_dir |-> None, path |-> <<>>,
     operation |-> "", ret |-> Allow, before |-> {}, base_dir |-> None,
     raw_roots |-> None]

Bool(b) == [kind |-> IF b THEN "True" ELSE "False", detail |-> <<>>]

NoRequest ==
    [command |-> <<>>, working_dir |-> None, file_path |-> <<>>, content |-> <<>>,
     save_to_file |-> None]

NoResult == [success |-> FALSE, error_type |-> "", error |-> <<>>]

\* no is_path_allowed loop is under way
NoScan ==
    [state |-> "idle", path |-> <<>>, size |-> 0, visited |-> {}, added |-> {},
     seen |-> {}]

\* no request is in flight
NoHttp == [state |-> "idle", method |-> "", endpoint |-> "", outcome |-> <<>>]

Idle ==
    /\ initialized = FALSE
    /\ scan = NoScan
    /\ http = NoHttp
    /\ pc = "idle"
    /\ tool = "none"
    /\ req = NoRequest
    /\ pending = <<>>
    /\ events = <<>>
    /\ returned = <<>>
    /\ result = NoResult

\* a validator constructed directly from a list of roots, as the tests do
Init ==
    /\ \E cfg \in RootConfigs :
           /\ allowed_roots = Construct(cfg)
           /\ call = [NoCall EXCEPT !.op = "__init__", !.raw_roots = cfg]
    /\ env = HomeDir
    /\ Idle

IsPathAllowed ==
    /\ call = NoCall
    /\ \E path \in Paths :
           /\ call' = Call("is_path_allowed", <<>>, None, path, "",
                           Bool(is_path_allowed(allowed_roots, path)))
           /\ allowed_roots' = roots_after_check(allowed_roots, path)
    /\ UNCHANGED serverVars

ValidateCommand ==
    /\ call = NoCall
    /\ \E command \in Commands, working_dir \in WorkingDirs :
           /\ call' = Call("validate_command", command, working_dir, <<>>, "",
                           validate_command(allowed_roots, command, working_dir))
           /\ allowed_roots' = roots_after_check(allowed_roots, working_dir)
    /\ UNCHANGED serverVars

ValidateFileOperation ==
    /\ call = NoCall
    /\ \E file_path \in Paths, operation \in Operations :
           /\ call' = Call("validate_file_operation", <<>>, None, file_path, operation,
                           validate_file_operation(allowed_roots, file_path, operation))
           /\ allowed_roots' = roots_after_check(allowed_roots, file_path)
    /\ UNCHANGED serverVars

\* get_safe_path(path); the method takes no other argument, and a call that
\* passes a base directory as well raises TypeError before the body runs
GetSafePath ==
    /\ call = NoCall
    /\ \E path \in Paths, base_dir \in BaseDirs :
           /\ call' = [Call("get_safe_path", <<>>, None, path, "",
                             IF base_dir # None
                             THEN [kind |-> "TypeError", detail |-> <<>>]
                             ELSE LET r == get_safe_path(allowed_roots, path)
                                  IN IF r = None THEN [kind |-> "None", detail |-> <<>>]
                                     ELSE [kind |-> "path", detail |-> r])
                        EXCEPT !.base_dir = base_dir]
           /\ allowed_roots' = IF base_dir # None THEN allowed_roots
                               ELSE roots_after_check(allowed_roots, path)
    /\ UNCHANGED serverVars

AddRoot ==
    /\ call = NoCall
    /\ \E root \in RawRoots :
           /\ allowed_roots' = add_root(allowed_roots, root)
           /\ call' = Call("add_root", <<>>, None, root, "",
                           Bool(add_root_returns(allowed_roots, root)))
    /\ UNCHANGED serverVars

RemoveRoot ==
    /\ call = NoCall
    /\ \E root \in RawRoots :
           /\ allowed_roots' = remove_root(allowed_roots, root)
           /\ call' = Call("remove_root", <<>>, None, root, "",
                           Bool(remove_root_returns(allowed_roots, root)))
    /\ UNCHANGED serverVars

\* the caller takes the value returned (or the SecurityError raised) and goes on
Return ==
    /\ call # NoCall
    /\ pc = "idle"
    /\ call' = NoCall
    /\ UNCHANGED <<allowed_roots, serverVars>>

Next ==
    \/ IsPathAllowed
    \/ ValidateCommand
    \/ ValidateFileOperation
    \/ GetSafePath
    \/ AddRoot
    \/ RemoveRoot
    \/ Return

Spec == Init /\ [][Next]_vars

(***************************************************************************)
(* server.py: initialize_clients and the tool handlers execute_kasm_command,*)
(* read_kasm_file and write_kasm_file.  A handler runs without suspension  *)
(* up to each "await kasm_client.exec_command(...)"; the remote answer     *)
(* resumes it.  The model follows one invocation at a time: invocations    *)
(* share only kasm_client and roots_validator, which no handler changes.   *)
(***************************************************************************)
\* the values of KASM_ALLOWED_ROOTS; unset reads as the default "/home/kasm-user"
EnvRoots ==
    { HomeDir,
      HomeDir \o <<",">> \o Workspace,
      HomeDir \o <<",", ",">>,
      HomeDir \o <<",", "/", "home", "/", ".", ".", "/", "workspace">>,
      <<>>,
      <<"/">>,
      <<"/", "srv">> }

\* the file contents written, and base64.b64encode(content.encode()).decode()
Contents == { <<"hello">>, <<"it", "'", "s">> }

Base64(content) ==
    IF content = <<"hello">> THEN <<"aGVsbG8=">> ELSE <<"aXQncw==">>

\* read_kasm_file: f"cat '{file_path}'"
ReadCommand(file_path) == <<"cat", " ", "'">> \o file_path \o <<"'">>

\* write_kasm_file: f"mkdir -p $(dirname '{file_path}')"
MkdirCommand(file_path) ==
    <<"mkdir", " ", "-", "p", " ", "$", "(", "dirname", " ", "'">>
        \o file_path \o <<"'", ")">>

\* write_kasm_file: f"echo '{encoded_content}' | base64 -d > '{file_path}'"
EchoCommand(file_path, content) ==
    <<"echo", " ", "'">> \o Base64(content)
        \o <<"'", " ", "|", " ", "base64", " ", "-", "d", " ", ">", " ", "'">>
        \o file_path \o <<"'">>

\* the validation a handler runs first
HandlerValidation(t, r) ==
    IF t = "execute_kasm_command"
    THEN validate_command(allowed_roots, r.command, r.working_dir)
    ELSE validate_file_operation(allowed_roots, r.file_path,
                                 IF t = "read_kasm_file" THEN "read" ELSE "write")

\* the commands a handler passes to exec_command, in order
HandlerCommands(t, r) ==
    IF t = "execute_kasm_command" THEN <<r.command>>
    ELSE IF t = "read_kasm_file" THEN <<ReadCommand(r.file_path)>>
    ELSE <<MkdirCommand(r.file_path), EchoCommand(r.file_path, r.content)>>

\* a handler that goes on to its commands whatever the validation said
Forwarded_NoShortCircuit(t, r, verdict) == HandlerCommands(t, r)

\* a SecurityError leaves the try block before any exec_command call
Forwarded(t, r, verdict) ==
    IF verdict.kind = "allow" THEN HandlerCommands(t, r) ELSE <<>>

ValidateEvent(t, verdict) ==
    [ev |-> "validate",
     what |-> IF t = "execute_kasm_command" THEN "validate_command"
              ELSE "validate_file_operation",
     ok |-> verdict.kind = "allow", command |-> <<>>]

ExecEvent(command) ==
    [ev |-> "exec_command", what |-> "exec_command", ok |-> TRUE, command |-> command]

\* str(e) of the SecurityError a validation raised
ErrorMessage(t, verdict) ==
    IF verdict.kind = "DangerousPattern"
    THEN <<"Command contains potentially dangerous pattern: ">> \o verdict.detail
    ELSE IF verdict.kind = "SensitiveWriteTarget"
    THEN <<"Attempt to write to sensitive location: ">> \o verdict.detail
    ELSE IF t = "execute_kasm_command"
    THEN <<"Working directory outside allowed roots: ">> \o verdict.detail
    ELSE <<"File ", IF t = "read_kasm_file" THEN "read" ELSE "write",
           " outside allowed roots: ">> \o verdict.detail

\* the dict returned from "except SecurityError", without the error_type tag
SecurityResult_Untagged(t, verdict) ==
    [success |-> FALSE, error_type |-> "",
     error |-> <<"Security violation: ">> \o ErrorMessage(t, verdict)]

\* the dict returned from "except SecurityError"
SecurityResult(t, verdict) ==
    [success |-> FALSE, error_type |-> "security",
     error |-> <<"Security violation: ">> \o ErrorMessage(t, verdict)]

\* the dict returned from "except Exception" and from a failed read or write
FailureResult == [success |-> FALSE, error_type |-> "", error |-> <<"Failed">>]

NotInitializedResult ==
    [success |-> FALSE, error_type |-> "", error |-> <<"Server not initialized">>]

SuccessResult == [success |-> TRUE, error_type |-> "", error |-> <<>>]

Tools == {"execute_kasm_command", "read_kasm_file", "write_kasm_file"}

Requests(t) ==
    IF t = "execute_kasm_command"
    THEN { [NoRequest EXCEPT !.command = c, !.working_dir = w] :
               c \in ExampleCommands, w \in WorkingDirs }
    ELSE IF t = "read_kasm_file"
    THEN { [NoRequest EXCEPT !.file_path = f] : f \in ExamplePaths }
    ELSE { [NoRequest EXCEPT !.file_path = f, !.content = c] :
               f \in ExamplePaths, c \in Contents }

\* the save_to_file arguments of get_session_screenshot
ScreenshotTargets ==
    { None, <<>>, HomeDir \o <<"/", "x">>, <<"/", "etc", "/", "passwd">>,
      HomeDir \o <<"/", "x", NUL>> }

\* the process before main() ran initialize_clients
ServerInit ==
    /\ allowed_roots = {}
    /\ call = NoCall
    /\ env \in EnvRoots
    /\ Idle

\* initialize_clients: the validator is built from the comma-separated variable
InitializeClients ==
    /\ ~initialized
    /\ pc = "idle"
    /\ allowed_roots' = Construct(Split(env, ","))
    /\ initialized' = TRUE
    /\ UNCHANGED <<call, env, http, pc, tool, req, pending, events, returned, scan, result>>

\* a handler runs from its entry to its first await, or to its return
Invoke ==
    /\ pc = "idle"
    /\ \E t \in Tools : \E r \in Requests(t) :
           /\ tool' = t
           /\ req' = r
           /\ IF ~initialized
              THEN /\ result' = NotInitializedResult
                   /\ pc' = "done"
                   /\ UNCHANGED <<call, pending, events>>
              ELSE LET verdict == HandlerValidation(t, r)
                       cmds == Forwarded(t, r, verdict)
                   IN /\ call' = IF t = "execute_kasm_command"
                                 THEN Call("validate_command", r.command,
                                           r.working_dir, <<>>, "", verdict)
                                 ELSE Call("validate_file_operation", <<>>, None,
                                           r.file_path,
                                           IF t = "read_kasm_file" THEN "read"
                                           ELSE "write",
                                           verdict)
                      /\ events' = IF cmds = <<>>
                                   THEN <<ValidateEvent(t, verdict)>>
                                   ELSE <<ValidateEvent(t, verdict), ExecEvent(Head(cmds))>>
                      /\ pending' = IF cmds = <<>> THEN <<>> ELSE Tail(cmds)
                      /\ pc' = IF cmds = <<>> THEN "done" ELSE "await"
                      /\ result' = IF verdict.kind = "allow" THEN NoResult
                                   ELSE SecurityResult(t, verdict)
    /\ UNCHANGED <<allowed_roots, env, http, initialized, returned, scan>>

\* what the remote API answers: an exit code, a body without one, or an error
ExecOutcomes == {"exit_0", "exit_1", "no_exit_code", "raises"}

\* a step that counts as failed only when an exit code other than 0 is there
StepFailed_NonZeroOnly(outcome) == outcome = "exit_1"

\* a read or write step has failed: result.get("exit_code") != 0, which a body
\* without an exit code satisfies too
StepFailed(outcome) == outcome # "exit_0"

\* exec_command returns or raises, and the handler runs on to its next await or return
ExecReturns ==
    /\ pc = "await"
    /\ \E outcome \in ExecOutcomes :
           /\ returned' = Append(returned, outcome)
           /\ IF outcome = "raises"
              THEN /\ result' = FailureResult
                   /\ pc' = "done"
                   /\ UNCHANGED <<pending, events>>
              ELSE IF tool = "execute_kasm_command"
              THEN /\ result' = SuccessResult
                   /\ pc' = "done"
                   /\ UNCHANGED <<pending, events>>
              ELSE IF StepFailed(outcome)
              THEN /\ result' = FailureResult
                   /\ pc' = "done"
                   /\ UNCHANGED <<pending, events>>
              ELSE IF pending = <<>>
              THEN /\ result' = SuccessResult
                   /\ pc' = "done"
                   /\ UNCHANGED <<pending, events>>
              ELSE /\ events' = Append(events, ExecEvent(Head(pending)))
                   /\ pending' = Tail(pending)
                   /\ UNCHANGED <<pc, result>>
    /\ UNCHANGED <<allowed_roots, call, env, http, initialized, tool, req, scan>>

\* the dict goes back to the caller and the invocation is over
HandlerReturn ==
    /\ pc = "done"
    /\ pc' = "idle"
    /\ tool' = "none"
    /\ req' = NoRequest
    /\ pending' = <<>>
    /\ events' = <<>>
    /\ returned' = <<>>
    /\ result' = NoResult
    /\ call' = NoCall
    /\ UNCHANGED <<allowed_roots, env, http, initialized, scan>>

\* open(save_to_file, "wb") and the write of the decoded screenshot, on the
\* file system of the server
OpenEvent(path) ==
    [ev |-> "open", what |-> "wb", ok |-> TRUE, command |-> path]

ScreenshotEvent ==
    [ev |-> "get_kasm_screenshot", what |-> "get_kasm_screenshot", ok |-> TRUE,
     command |-> <<>>]

\* get_session_screenshot from its entry to its await; it tests kasm_client
\* only and calls no method of the validator
InvokeScreenshot ==
    /\ pc = "idle"
    /\ \E target \in ScreenshotTargets :
           /\ tool' = "get_session_screenshot"
           /\ req' = [NoRequest EXCEPT !.save_to_file = target]
           /\ IF ~initialized
              THEN /\ result' = NotInitializedResult
                   /\ pc' = "done"
                   /\ UNCHANGED events
              ELSE /\ events' = <<ScreenshotEvent>>
                   /\ pc' = "await_screenshot"
                   /\ UNCHANGED result
    /\ UNCHANGED <<allowed_roots, call, env, http, initialized, pending, returned, scan>>

\* what get_kasm_screenshot comes back with: image data, a body without any, or an error
ScreenshotOutcomes == {"data", "no_data", "raises"}

\* get_kasm_screenshot returns or raises, and the handler runs to its return;
\* open() raises for a path it cannot open
ScreenshotReturns ==
    /\ pc = "await_screenshot"
    /\ \E outcome \in ScreenshotOutcomes, opens \in BOOLEAN :
           /\ returned' = Append(returned, outcome)
           /\ pc' = "done"
           /\ IF outcome = "raises"
              THEN result' = FailureResult /\ UNCHANGED events
              ELSE IF Truthy(req.save_to_file) /\ outcome = "data"
              THEN IF opens /\ ~ResolveRaises(req.save_to_file)
                   THEN /\ events' = Append(events, OpenEvent(req.save_to_file))
                        /\ result' = SuccessResult
                   ELSE result' = FailureResult /\ UNCHANGED events
              ELSE result' = SuccessResult /\ UNCHANGED events
    /\ UNCHANGED <<allowed_roots, call, env, http, initialized, tool, req, pending, scan>>

ServerNext ==
    \/ InitializeClients
    \/ Invoke
    \/ ExecReturns
    \/ InvokeScreenshot
    \/ ScreenshotReturns
    \/ HandlerReturn

ServerSpec == ServerInit /\ [][ServerNext]_vars

(***************************************************************************)
(* One RootsValidator used by two threads: one runs is_path_allowed, whose *)
(* loop "for root in self.allowed_roots" iterates the set itself, and the  *)
(* other runs add_root and remove_root.  The class has no lock; the        *)
(* interpreter can switch threads between two steps of the loop.  set.add  *)
(* and set.remove are atomic.  A set iterator remembers the size the set   *)
(* had when the loop began and raises RuntimeError ("Set changed size      *)
(* during iteration") at its next step if the size differs; if the size is *)
(* the same again it goes on over the table as it is now, and can miss a   *)
(* member that was put in behind its position since the loop began.        *)
(***************************************************************************)
\* how many times the other thread changes the set during one loop
MaxMutations == 2

\* the paths checked and the roots added and removed by the two threads
ThreadPaths ==
    { HomeDir \o <<"/", "x">>,
      Workspace \o <<"/", "project", "/", "file", ".", "py">>,
      <<"/", "etc", "/", "passwd">>,
      HomeDir \o <<"/", "x", NUL>> }

ThreadRoots == { HomeDir, Workspace, <<"/">> }

ScanDone(path, answer) ==
    /\ call' = Call("is_path_allowed", <<>>, None, path, "", Bool(answer))
    /\ scan' = [scan EXCEPT !.state = "done", !.path = path,
                            !.seen = scan.seen \cup {allowed_roots}]

\* is_path_allowed up to the start of its loop: resolve() and iter(self.allowed_roots)
CheckBegin ==
    /\ scan.state = "idle"
    /\ call = NoCall
    /\ pc = "idle"
    /\ \E path \in ThreadPaths :
           IF ResolveRaises(path)
           THEN ScanDone(path, FALSE)
           ELSE /\ scan' = [state |-> "iterating", path |-> path,
                            size |-> Cardinality(allowed_roots), visited |-> {},
                            added |-> {}, seen |-> {allowed_roots}]
                /\ UNCHANGED call
    /\ UNCHANGED <<allowed_roots, env, http, initialized, pc, tool, req, pending, events,
                   returned, result>>

\* one step of the loop: the iterator raises, is exhausted, or yields a root
CheckStep ==
    /\ scan.state = "iterating"
    /\ IF Cardinality(allowed_roots) # scan.size
       THEN ScanDone(scan.path, FALSE)
       ELSE \/ /\ \/ allowed_roots \ scan.visited = {}
                  \/ /\ scan.visited # {}
                     /\ (allowed_roots \ scan.visited) \subseteq scan.added
               /\ ScanDone(scan.path, FALSE)
            \/ \E root \in allowed_roots \ scan.visited :
                   IF RelativeTo(Resolve(scan.path), root)
                   THEN ScanDone(scan.path, TRUE)
                   ELSE /\ scan' = [scan EXCEPT !.visited = scan.visited \cup {root}]
                        /\ UNCHANGED call
    /\ UNCHANGED <<allowed_roots, env, http, initialized, pc, tool, req, pending, events,
                   returned, result>>

\* the caller takes the answer
CheckReturn ==
    /\ scan.state = "done"
    /\ scan' = NoScan
    /\ call' = NoCall
    /\ UNCHANGED <<allowed_roots, env, http, initialized, pc, tool, req, pending, events,
                   returned, result>>

\* the other thread may go on: no loop is under way, or it has changed the set
\* fewer than MaxMutations times during this one
MayMutate ==
    /\ scan.state # "done"
    /\ scan.state = "iterating" => Cardinality(scan.seen) <= MaxMutations

Mutated(roots) ==
    /\ allowed_roots' = roots
    /\ scan' = IF scan.state = "iterating"
               THEN [scan EXCEPT !.seen = scan.seen \cup {roots},
                                 !.added = scan.added \cup (roots \ allowed_roots)]
               ELSE scan
    /\ UNCHANGED <<call, env, http, initialized, pc, tool, req, pending, events, returned,
                   result>>

\* add_root in the other thread
ThreadAddRoot ==
    /\ MayMutate
    /\ \E root \in ThreadRoots :
           /\ add_root(allowed_roots, root) # allowed_roots
           /\ Mutated(add_root(allowed_roots, root))

\* remove_root in the other thread
ThreadRemoveRoot ==
    /\ MayMutate
    /\ \E root \in ThreadRoots :
           /\ remove_root(allowed_roots, root) # allowed_roots
           /\ Mutated(remove_root(allowed_roots, root))

ThreadedInit ==
    /\ \E cfg \in RootConfigs : allowed_roots = Construct(cfg)
    /\ call = NoCall
    /\ env = HomeDir
    /\ Idle

ThreadedNext ==
    \/ CheckBegin
    \/ CheckStep
    \/ CheckReturn
    \/ ThreadAddRoot
    \/ ThreadRemoveRoot

ThreadedSpec == ThreadedInit /\ [][ThreadedNext]_vars

(***************************************************************************)
(* KasmAPIClient._make_request: the request goes out, the response comes   *)
(* in, and the method returns the decoded body or raises.                  *)
(***************************************************************************)
\* "if response.status >= 400"
ErrorStatus == 400

Statuses == { 200, 201, 400, 401, 404, 500 }

ContentTypes == { "application/json", "text/html", "text/plain" }

\* the response bodies: whether the text decodes as JSON, what the decoded
\* object has under "error" and under "error_message", and its other content
Bodies ==
    { [decodes |-> d, error |-> e, error_message |-> m, data |-> x] :
          d \in BOOLEAN,
          e \in { <<>>, <<"True">>, <<"Unauthorized">> },
          m \in { <<>>, <<"Test error">> },
          x \in { <<"exit_code: 0">>, <<"exit_code: 1">>, <<>> } }

Responses ==
    { [content_type |-> c, status |-> n, body |-> b] :
          c \in ContentTypes, n \in Statuses, b \in Bodies }

Raises(type, message) == [kind |-> "raises", type |-> type, message |-> message]

Returns(body) == [kind |-> "returns", body |-> body]

\* the text of an HTTP status
StatusText(n) ==
    IF n = 200 THEN "200" ELSE IF n = 201 THEN "201" ELSE IF n = 400 THEN "400"
    ELSE IF n = 401 THEN "401" ELSE IF n = 404 THEN "404" ELSE "500"

\* what _make_request does with a response: an HTML page, a body that is no
\* JSON and a status of 400 or more raise; any other decoded body is returned
make_request(response) ==
    IF response.content_type = "text/html"
    THEN Raises("Exception", <<"Received HTML response instead of JSON (status ",
                               StatusText(response.status), ")">>)
    ELSE IF response.content_type # "application/json"
    THEN Raises("ContentTypeError", <<>>)
    ELSE IF ~response.body.decodes
    THEN Raises("Exception", <<"Invalid JSON response from API: ">>)
    ELSE IF response.status >= ErrorStatus
    THEN Raises("Exception",
                <<"Kasm API error: ">> \o
                    (IF response.body.error # <<>> THEN response.body.error
                     ELSE <<"API error with status ", StatusText(response.status)>>))
    ELSE Returns(response.body)

ClientInit ==
    /\ allowed_roots = {}
    /\ call = NoCall
    /\ env = HomeDir
    /\ Idle

\* the request is sent
SendRequest ==
    /\ http.state = "idle"
    /\ \E method \in {"GET", "POST"},
          endpoint \in {"/api/public/exec_command_kasm", "/api/public/get_kasm_status"} :
           http' = [state |-> "sent", method |-> method, endpoint |-> endpoint,
                    outcome |-> <<>>]
    /\ UNCHANGED <<allowed_roots, call, env, initialized, pc, tool, req, pending, events,
                   returned, scan, result>>

\* the response arrives and _make_request returns or raises
ReceiveResponse ==
    /\ http.state = "sent"
    /\ \E response \in Responses :
           http' = [http EXCEPT !.state = "done",
                                !.outcome = <<response, make_request(response)>>]
    /\ UNCHANGED <<allowed_roots, call, env, initialized, pc, tool, req, pending, events,
                   returned, scan, result>>

\* the caller has the outcome
RequestDone ==
    /\ http.state = "done"
    /\ http' = NoHttp
    /\ UNCHANGED <<allowed_roots, call, env, initialized, pc, tool, req, pending, events,
                   returned, scan, result>>

ClientNext ==
    \/ SendRequest
    \/ ReceiveResponse
    \/ RequestDone

ClientSpec == ClientInit /\ [][ClientNext]_vars

(***************************************************************************)
(* What the claims speak of, stated without the operators of the code.     *)
(***************************************************************************)
\* the canonical path and every ancestor of it, cut at segment boundaries
SelfAndAncestors(canon) == { SubSeq(canon, 1, k) : k \in 0..Len(canon) }

\* the path has a canonical form that is a root or has a root as an ancestor
Contained(path) ==
    /\ path # None
    /\ \A i \in 1..Len(path) : path[i] # NUL
    /\ allowed_roots \cap SelfAndAncestors(Resolve(path)) # {}

\* the words of a command: what stands between blanks
Words(command) == SelectSeq(Split(command, " "), LAMBDA w : w # <<>>)

\* the basename of the executable: the last segment of the first word
FirstWord(command) ==
    IF Words(command) = <<>> THEN <<>>
    ELSE LET segs == Split(Words(command)[1], "/") IN segs[Len(segs)]

\* the hard-blocked commands the specification lists: superuser elevation, user
\* and group administration, service and power control, mounts, raw disk tools
BlockedCommands ==
    { <<"sudo">>, <<"su">>, <<"useradd">>, <<"userdel">>, <<"usermod">>,
      <<"groupadd">>, <<"passwd">>, <<"systemctl">>, <<"service">>,
      <<"shutdown">>, <<"reboot">>, <<"mount">>, <<"umount">>, <<"dd">>,
      <<"fdisk">>, <<"mkfs">> }

\* the sensitive system files of the specification
SensitiveFiles ==
    { <<"/", "etc", "/", "passwd">>, <<"/", "etc", "/", "shadow">>,
      <<"/", "etc", "/", "sudoers">> }

\* the absolute path operands of a command: its words that start with "/"
AbsoluteOperands(command) ==
    { Words(command)[i] : i \in { j \in 1..Len(Words(command)) :
                                      IsAbsolute(Words(command)[j]) } }

Traversal == { <<".", ".", "/">>, <<"/", ".", ".">> }

\* the traversal sequences and the shell metacharacters | ; && || ` $( ${ >> > <
\* (|| holds |, and >> holds >)
ShellPatterns ==
    Traversal \cup
    { <<"|">>, <<";">>, <<"&", "&">>, <<BACKTICK>>, <<"$", "(">>, <<"$", "{">>,
      <<">">>, <<"<">> }

\* every textual pattern the claims call dangerous: the above, and references to
\* sensitive files and to kernel or boot trees
ClaimPatterns ==
    ShellPatterns \cup SensitiveFiles \cup
    { <<"/", "boot", "/">>, <<"/", "sys", "/">>, <<"/", "proc", "/", "sys", "/">> }

IsValidateCommand == call.op = "validate_command"

IsValidateFile == call.op = "validate_file_operation"

\* C1: is_path_allowed(P) is true iff P's canonical form equals a root or has a
\* root as a path-segment-aligned ancestor
C1_ContainmentIsSegmentAligned ==
    call.op = "is_path_allowed" =>
        (call.ret.kind = "True" <=> Contained(call.path))

\* C1 witness: /home/kasm-user2/x is refused and nothing but /home/kasm-user is a root
C1_Witness ==
    /\ call.op = "is_path_allowed"
    /\ call.path = HomeDir \o <<"2", "/", "x">>
    /\ allowed_roots = {Resolve(HomeDir)}
    /\ call.ret.kind = "False"

\* C3: validate_command denies, with a BlockedCommand reason naming the command,
\* every command whose first word is in the hard-blocked set
C3_BlockedCommandDenied ==
    (IsValidateCommand /\ FirstWord(call.command) \in BlockedCommands) =>
        call.ret = Deny("BlockedCommand", FirstWord(call.command))

\* C4: validate_command denies with DangerousPattern every command whose text
\* references /etc/passwd, /etc/shadow or /etc/sudoers
C4_SensitiveFileDenied ==
    (IsValidateCommand /\ \E f \in SensitiveFiles : Contains(call.command, f)) =>
        call.ret.kind = "DangerousPattern"

\* C5: validate_command denies every command with an absolute path operand that
\* lies outside all roots
C5_OutsideOperandDenied ==
    (IsValidateCommand /\ \E o \in AbsoluteOperands(call.command) : ~Contained(o)) =>
        call.ret.kind # "allow"

\* C6: validate_command denies with DangerousPattern every command whose text
\* contains ../ or /.. anywhere, whatever the roots and the working directory
C6_TraversalDenied ==
    (IsValidateCommand /\ \E t \in Traversal : Contains(call.command, t)) =>
        /\ call.ret.kind = "DangerousPattern"
        /\ call.ret.detail \in Traversal

\* C6 witness: a command that ends in /.., run in an allowed working directory
C6_Witness ==
    /\ IsValidateCommand
    /\ call.command = <<"ls", " ">> \o HomeDir \o <<"/", ".", ".">>
    /\ call.working_dir = HomeDir
    /\ Resolve(HomeDir) \in allowed_roots
    /\ call.ret = Deny("DangerousPattern", <<"/", ".", ".">>)

\* C7 as claimed: a supplied working_dir outside every root is denied with
\* PathOutsideRoots naming it; a contained one never causes a denial
C7_Original ==
    IsValidateCommand =>
        /\ (call.working_dir # None /\ ~Contained(call.working_dir)) =>
               call.ret = Deny("PathOutsideRoots", call.working_dir)
        /\ (call.working_dir # None /\ Contained(call.working_dir)) =>
               call.ret.kind # "PathOutsideRoots"

\* C7 as amended: a non-empty working_dir outside every root is denied, with
\* PathOutsideRoots naming it unless the command holds a traversal sequence or a
\* shell metacharacter (checked first: the reason is then DangerousPattern); an empty working_dir
\* counts as not supplied; a contained or absent one never gives PathOutsideRoots
C7_WorkingDirOutsideDenied ==
    IsValidateCommand =>
        /\ (call.working_dir \notin {None, <<>>} /\ ~Contained(call.working_dir)) =>
               IF \E p \in ShellPatterns : Contains(call.command, p)
               THEN call.ret.kind = "DangerousPattern"
               ELSE call.ret = Deny("PathOutsideRoots", call.working_dir)
        /\ (call.working_dir \in {None, <<>>} \/ Contained(call.working_dir)) =>
               call.ret.kind # "PathOutsideRoots"

\* C7 witness: a harmless command in /etc, which no root contains
C7_Witness ==
    /\ IsValidateCommand
    /\ call.command = <<"ls", " ", "-", "la", " ">> \o HomeDir
    /\ call.working_dir = <<"/", "etc">>
    /\ call.ret = Deny("PathOutsideRoots", <<"/", "etc">>)

\* C8: validate_command allows any command with no blocked first word, no
\* dangerous pattern, only absolute paths inside the roots and no working_dir
C8_SafeCommandAllowed ==
    ( /\ IsValidateCommand
      /\ FirstWord(call.command) \notin BlockedCommands
      /\ \A p \in ClaimPatterns : ~Contains(call.command, p)
      /\ \A o \in AbsoluteOperands(call.command) : Contained(o)
      /\ call.working_dir = None ) =>
        call.ret = Allow

\* C8 witness: "ls -la /home/kasm-user" is allowed with the one root /home/kasm-user
C8_Witness ==
    /\ IsValidateCommand
    /\ call.command = <<"ls", " ", "-", "la", " ">> \o HomeDir
    /\ call.working_dir = None
    /\ allowed_roots = {Resolve(HomeDir)}
    /\ call.ret = Allow

\* C9: for read, write and access, validate_file_operation denies with
\* PathOutsideRoots whenever the path is not contained in any root
C9_OutsideRootsDenied ==
    (IsValidateFile /\ ~Contained(call.path)) =>
        call.ret = Deny("PathOutsideRoots", call.path)

\* C9 witness: a read of /root/.bashrc with the one root /home/kasm-user
C9_Witness ==
    /\ IsValidateFile
    /\ call.operation = "read"
    /\ call.path = <<"/", "root", "/", ".", "bashrc">>
    /\ allowed_roots = {Resolve(HomeDir)}
    /\ call.ret.kind = "PathOutsideRoots"

\* the first segments of the sensitive system trees
SystemTrees ==
    { <<"etc">>, <<"usr">>, <<"bin">>, <<"sbin">>, <<"lib">>, <<"proc">>,
      <<"sys">>, <<"dev">> }

\* a canonical path under a system tree, or with a .ssh or .gnupg directory on
\* the way to its last segment
SensitiveTarget(canon) ==
    \/ canon # <<>> /\ canon[1] \in SystemTrees
    \/ \E i \in 1..(Len(canon) - 1) : canon[i] \in { <<".", "ssh">>, <<".", "gnupg">> }

\* C10: a write to a path inside a root whose canonical form is under /etc, /usr,
\* /bin, /sbin, /lib, /proc, /sys or /dev, or passes through a .ssh or .gnupg
\* directory, is denied with SensitiveWriteTarget
C10_SensitiveWriteDenied ==
    ( /\ IsValidateFile
      /\ call.operation = "write"
      /\ Contained(call.path)
      /\ SensitiveTarget(Resolve(call.path)) ) =>
        call.ret = Deny("SensitiveWriteTarget", call.path)

\* C10 witness: a write of /home/kasm-user/.ssh/authorized_keys inside the root
C10_Witness ==
    /\ IsValidateFile
    /\ call.operation = "write"
    /\ call.path = HomeDir \o <<"/", ".", "ssh", "/", "authorized_keys">>
    /\ allowed_roots = {Resolve(HomeDir)}
    /\ call.ret.kind = "SensitiveWriteTarget"

\* C2: in execute_kasm_command, read_kasm_file and write_kasm_file every
\* exec_command call comes after a successful validate_command or
\* validate_file_operation of the same invocation, and an invocation whose
\* validation denied makes no exec_command call
C2_ValidateBeforeExec ==
    /\ \A i \in 1..Len(events) :
           events[i].ev = "exec_command" =>
               \E j \in 1..(i - 1) :
                   /\ events[j].ev = "validate"
                   /\ events[j].ok
                   /\ events[j].what = IF tool = "execute_kasm_command"
                                       THEN "validate_command"
                                       ELSE "validate_file_operation"
    /\ (\E j \in 1..Len(events) : events[j].ev = "validate" /\ ~events[j].ok) =>
           /\ \A i \in 1..Len(events) : events[i].ev # "exec_command"
           /\ pc = "done"
           /\ ~result.success

\* C2 witness: write_kasm_file has validated its path and issued both commands
C2_Witness ==
    /\ tool = "write_kasm_file"
    /\ Len(events) = 3
    /\ events[1].ev = "validate" /\ events[1].ok
    /\ events[2] = ExecEvent(MkdirCommand(req.file_path))
    /\ events[3] = ExecEvent(EchoCommand(req.file_path, req.content))

\* C11: validate_file_operation allows exactly a read or access of a contained
\* path, and a write of a contained path that is under no system tree (cut at
\* segment boundaries) and passes through no .ssh or .gnupg directory; a
\* contained path that is not sensitive is never denied
C11_AllowedExactly ==
    IsValidateFile =>
        ( call.ret = Allow <=>
            /\ Contained(call.path)
            /\ call.operation = "write" => ~SensitiveTarget(Resolve(call.path)) )

IsGetSafePath == call.op = "get_safe_path" /\ call.base_dir = None

\* C12: a path that get_safe_path returns is the canonical absolute form of its
\* input and is contained in a root; for an input that is not contained it
\* returns absence
C12_SafePathIsCanonicalAndContained ==
    IsGetSafePath =>
        /\ call.ret.kind \in {"path", "None"}
        /\ call.ret.kind = "path" =>
               /\ Contained(call.path)
               /\ call.ret.detail = PathStr(Resolve(call.path))
               /\ IsAbsolute(call.ret.detail)
               /\ Resolve(call.ret.detail) = Resolve(call.path)
        /\ ~Contained(call.path) => call.ret.kind = "None"

\* C12 witness: /home/kasm-user/./x//y comes back as /home/kasm-user/x/y
C12_Witness ==
    /\ IsGetSafePath
    /\ call.path = HomeDir \o <<"/", ".", "/", "x", "/", "/", "y">>
    /\ allowed_roots = {Resolve(HomeDir)}
    /\ call.ret = [kind |-> "path", detail |-> HomeDir \o <<"/", "x", "/", "y">>]

\* the path joined onto a directory, as os.path.join does for a relative path
JoinedOnto(dir, path) == dir \o <<"/">> \o path

SafePathOf(path) ==
    IF Contained(path)
    THEN [kind |-> "path", detail |-> PathStr(Resolve(path))]
    ELSE [kind |-> "None", detail |-> <<>>]

\* C13 as stated: get_safe_path joins a relative path onto the supplied base
\* directory, canonicalizes and checks containment, so that a relative path
\* whose join is contained comes back in canonical form and one whose join is
\* not contained does not come back as a path
C13_Original ==
    ( /\ call.op = "get_safe_path"
      /\ call.base_dir # None
      /\ ~IsAbsolute(call.path) ) =>
        IF Contained(JoinedOnto(call.base_dir, call.path))
        THEN call.ret = SafePathOf(JoinedOnto(call.base_dir, call.path))
        ELSE call.ret.kind # "path"

\* C13: get_safe_path takes the path alone, and a call that passes a base
\* directory raises TypeError; a relative path is taken from the current
\* working directory of the process, canonicalized and checked for containment
C13_RelativeAgainstCwd ==
    call.op = "get_safe_path" =>
        /\ call.base_dir # None => call.ret.kind = "TypeError"
        /\ (call.base_dir = None /\ ~IsAbsolute(call.path)) =>
               call.ret = SafePathOf(JoinedOnto(PathStr(Cwd), call.path))

\* C13 witness: with the root /, notes.txt comes back as /opt/kasm-mcp/notes.txt
C13_Witness ==
    /\ IsGetSafePath
    /\ call.path = <<"notes", ".", "txt">>
    /\ allowed_roots = {<<>>}
    /\ call.ret = [kind |-> "path",
                   detail |-> <<"/", "opt", "/", "kasm-mcp", "/", "notes", ".", "txt">>]

IsCanonical(p) ==
    /\ \A i \in 1..Len(p) :
           /\ p[i] \notin { <<>>, <<".">>, <<".", ".">> }
           /\ \A k \in 1..Len(p[i]) : p[i][k] \notin { "/", NUL }
    /\ Resolve(PathStr(p)) = p

\* C14: every member of the root set is an absolute, normalized path (no empty,
\* "." or ".." segment, no symbolic link on the way: resolving it again gives
\* the same path), and no two members have the same canonical form
C14_RootsAreCanonical ==
    /\ \A r \in allowed_roots : IsAbsolute(PathStr(r)) /\ IsCanonical(r)
    /\ \A r1, r2 \in allowed_roots :
           Resolve(PathStr(r1)) = Resolve(PathStr(r2)) => r1 = r2

\* C14 witness: /home/kasm-user/project/.. and the relative root data have been
\* added to the root /, and the set holds /, /home/kasm-user, /opt/kasm-mcp/data
C14_Witness ==
    /\ call.op = "add_root"
    /\ call.path = <<"data">>
    /\ call.before = {<<>>, Resolve(HomeDir)}
    /\ allowed_roots = {<<>>, Resolve(HomeDir), Cwd \o << <<"data">> >>}

IsAddRoot == call.op = "add_root"

IsRemoveRoot == call.op = "remove_root"

\* C15: add_root of a root whose canonical form is already a member leaves the
\* root set as it was, so a second add of the same root changes nothing
C15_AddRootIdempotent ==
    ( /\ IsAddRoot
      /\ ~ResolveRaises(call.path)
      /\ Resolve(call.path) \in call.before ) =>
        allowed_roots = call.before

\* C15 witness: /home/kasm-user/project/.. is added to the roots / and
\* /home/kasm-user, which stay as they are
C15_Witness ==
    /\ IsAddRoot
    /\ call.path = HomeDir \o <<"/", "project", "/", ".", ".">>
    /\ call.before = {<<>>, Resolve(HomeDir)}
    /\ allowed_roots = {<<>>, Resolve(HomeDir)}

\* C16 as stated: add_root returns true iff the canonical form of the root was
\* not a member before the call
C16_Original ==
    (IsAddRoot /\ ~ResolveRaises(call.path)) =>
        (call.ret = Bool(TRUE) <=> Resolve(call.path) \notin call.before)

\* C16: add_root returns true whenever the root resolves, whether its canonical
\* form was a member before the call or not, and false only when resolving raises
C16_AddRootReturnsSuccess ==
    IsAddRoot =>
        /\ call.ret = Bool(~ResolveRaises(call.path))
        /\ call.ret = Bool(TRUE) => Resolve(call.path) \in allowed_roots

\* C16 witness: /home/kasm-user is added to a set that holds it, and true comes back
C16_Witness ==
    /\ IsAddRoot
    /\ call.path = HomeDir
    /\ call.before = {Resolve(HomeDir)}
    /\ allowed_roots = {Resolve(HomeDir)}
    /\ call.ret = Bool(TRUE)

\* C17: remove_root takes out exactly the member equal to the canonical form of
\* its argument and returns true iff there was one; otherwise it returns false
\* and the set stays as it was; a root that is only an ancestor or a descendant
\* of the argument stays
C17_RemoveRootExact ==
    IsRemoveRoot =>
        IF ~ResolveRaises(call.path) /\ Resolve(call.path) \in call.before
        THEN /\ call.ret = Bool(TRUE)
             /\ allowed_roots = call.before \ {Resolve(call.path)}
        ELSE /\ call.ret = Bool(FALSE)
             /\ allowed_roots = call.before

\* C17 witness: /home/kasm-user is removed from the roots / and
\* /home/kasm-user, and its ancestor / stays
C17_Witness ==
    /\ IsRemoveRoot
    /\ call.path = HomeDir
    /\ call.before = {<<>>, Resolve(HomeDir)}
    /\ allowed_roots = {<<>>}
    /\ call.ret = Bool(TRUE)

\* a call made while the root set was empty
OnEmptyRoots == call.op # "none" /\ call.before = {} /\ allowed_roots = {}

HasShellPattern(command) == \E p \in ShellPatterns : Contains(command, p)

C20_FailClosed ==
    /\ (call.op = "is_path_allowed" /\ ResolveRaises(call.path)) =>
           call.ret = Bool(FALSE)
    /\ (IsValidateFile /\ ResolveRaises(call.path)) =>
           call.ret = Deny("PathOutsideRoots", call.path)
    /\ (IsGetSafePath /\ ResolveRaises(call.path)) => call.ret.kind = "None"
    /\ ( /\ IsValidateCommand
         /\ call.working_dir # None
         /\ ResolveRaises(call.working_dir) ) =>
           /\ call.ret # Allow
           /\ ~HasShellPattern(call.command) =>
                  call.ret = Deny("PathOutsideRoots", call.working_dir)

\* C20 witness: a command with a working directory that holds a null byte is
\* denied though the root / contains every path
C20_Witness ==
    /\ IsValidateCommand
    /\ call.working_dir = HomeDir \o <<"/", "x", NUL>>
    /\ call.before = {<<>>}
    /\ call.ret = Deny("PathOutsideRoots", call.working_dir)

\* the non-empty entries of a comma-separated value: its longest stretches
\* without a comma
ConfigEntries(v) ==
    { SubSeq(v, ij[1], ij[2]) : ij \in
          { ij \in (1..Len(v)) \X (1..Len(v)) :
                /\ ij[1] <= ij[2]
                /\ \A k \in ij[1]..ij[2] : v[k] # ","
                /\ (ij[1] = 1 \/ v[ij[1] - 1] = ",")
                /\ (ij[2] = Len(v) \/ v[ij[2] + 1] = ",") } }

\* C18: the root set built from the comma-separated configuration value holds
\* the canonical form of every non-empty entry and nothing else: an empty entry
\* (as in "/home/kasm-user,," or an empty value) contributes no root
C18_EmptyEntriesIgnored ==
    initialized =>
        allowed_roots = { Resolve(e) : e \in ConfigEntries(env) }

IsConstructed == call.op = "__init__"

\* the list the constructor works on: the default for None
Configured == IF call.raw_roots = None THEN <<HomeDir>> ELSE call.raw_roots

\* C21 as stated: every configured root is a member of the constructed set in
\* normalized form, also one whose resolution fails
C21_Original ==
    IsConstructed =>
        \A i \in 1..Len(Configured) : Resolve(Configured[i]) \in allowed_roots

\* C21: the constructed set holds the canonical form of every configured root
\* that resolves and nothing else: a root whose resolution raises is left out,
\* and the roots before and after it are kept
C21_FailedRootSkipped ==
    IsConstructed =>
        allowed_roots =
            { Resolve(Configured[i]) :
                  i \in { j \in 1..Len(Configured) :
                              \A k \in 1..Len(Configured[j]) : Configured[j][k] # NUL } }

\* C21 witness: of a path with a null byte and /home/kasm-user, the constructed
\* set holds /home/kasm-user alone
C21_Witness ==
    /\ IsConstructed
    /\ call.raw_roots = <<HomeDir \o <<NUL>>, HomeDir>>
    /\ allowed_roots = {Resolve(HomeDir)}

\* the validation of the running invocation has denied
ValidationDenied ==
    /\ events # <<>>
    /\ events[1].ev = "validate"
    /\ ~events[1].ok

\* C22: every validation denial in execute_kasm_command, read_kasm_file and
\* write_kasm_file comes back as a result with success false, error_type
\* "security" and a message that holds the matched pattern or the offending
\* path; a failure that is not a validation denial never has error_type
\* "security"
C22_DenialIsSecurityError ==
    /\ ValidationDenied =>
           /\ pc = "done"
           /\ ~result.success
           /\ result.error_type = "security"
           /\ call.ret.kind \in {"DangerousPattern", "PathOutsideRoots",
                                 "SensitiveWriteTarget"}
           /\ call.ret.detail # <<>> => Contains(result.error, call.ret.detail)
           /\ call.ret.kind = "DangerousPattern" =>
                  /\ call.ret.detail # <<>>
                  /\ Contains(req.command, call.ret.detail)
           /\ (call.ret.kind # "DangerousPattern" /\ tool = "execute_kasm_command") =>
                  call.ret.detail = req.working_dir
           /\ tool # "execute_kasm_command" => call.ret.detail = req.file_path
    /\ result.error_type = "security" => ValidationDenied

\* C22 witness: a write of /etc/passwd is denied and the message names the path
C22_Witness ==
    /\ tool = "write_kasm_file"
    /\ req.file_path = <<"/", "etc", "/", "passwd">>
    /\ ValidationDenied
    /\ result.error_type = "security"
    /\ result.error = <<"Security violation: ", "File ", "write",
                        " outside allowed roots: ", "/", "etc", "/", "passwd">>

\* the commands the running invocation has passed to exec_command, in order
Issued ==
    LET execs == SelectSeq(events, LAMBDA e : e.ev = "exec_command")
    IN [i \in 1..Len(execs) |-> execs[i].command]

\* the steps of write_kasm_file: make the directory, then write the file
WriteSteps == <<MkdirCommand(req.file_path), EchoCommand(req.file_path, req.content)>>

\* C23: write_kasm_file issues its steps in order (make directory, then write
\* file), a step only after every step before it came back with exit code 0,
\* and none after a denial; a denied validation or a step that raised or came
\* back with anything but exit code 0 ends the invocation with a failure
C23_WriteStopsAtFirstFailure ==
    tool = "write_kasm_file" =>
        /\ Len(Issued) <= 2
        /\ Issued = SubSeq(WriteSteps, 1, Len(Issued))
        /\ ValidationDenied => Issued = <<>> /\ ~result.success /\ pc = "done"
        /\ Len(returned) <= Len(Issued)
        /\ \A k \in 1..Len(Issued) :
               k > 1 => (Len(returned) >= k - 1 /\ returned[k - 1] = "exit_0")
        /\ \A k \in 1..Len(returned) :
               returned[k] # "exit_0" =>
                   /\ Len(returned) = k
                   /\ Len(Issued) = k
                   /\ pc = "done"
                   /\ ~result.success

\* C23 witness: the directory step came back without an exit code, and the
\* write step was never issued
C23_Witness ==
    /\ tool = "write_kasm_file"
    /\ returned = <<"no_exit_code">>
    /\ Issued = <<MkdirCommand(req.file_path)>>
    /\ pc = "done"
    /\ ~result.success

\* C24: validate_command, validate_file_operation, is_path_allowed and
\* get_safe_path leave the root set as they found it, whether they allow or
\* deny; a call after which the root set differs is an add_root or a remove_root
C24_ValidationLeavesRoots ==
    /\ call.op \in {"validate_command", "validate_file_operation",
                    "is_path_allowed", "get_safe_path"} =>
           allowed_roots = call.before
    /\ (call.op \notin {"none", "__init__"} /\ allowed_roots # call.before) =>
           call.op \in {"add_root", "remove_root"}

\* C24 witness: a write to /etc/passwd was denied with the roots / and
\* /home/kasm-user, and both are still the roots
C24_Witness ==
    /\ IsValidateFile
    /\ call.operation = "write"
    /\ call.path = <<"/", "etc", "/", "passwd">>
    /\ call.ret.kind = "SensitiveWriteTarget"
    /\ call.before = {<<>>, Resolve(HomeDir)}
    /\ allowed_roots = {<<>>, Resolve(HomeDir)}

\* the path has a canonical form that is one of the roots or below one
ContainedIn(roots, path) ==
    /\ \A i \in 1..Len(path) : path[i] # NUL
    /\ roots \cap SelfAndAncestors(Resolve(path)) # {}

\* C25: an is_path_allowed call that runs while another thread adds and removes
\* roots answers as it would for one of the root sets that existed during the
\* call: the set before, between or after the changes
C25_ObservesWholeRootSet ==
    scan.state = "done" =>
        \E roots \in scan.seen : call.ret = Bool(ContainedIn(roots, scan.path))

\* C26: whenever the decoded body of the response has an error flag and an
\* error_message, _make_request raises an error whose text holds that message,
\* also when the HTTP status is 200
C26_BodyErrorRaises ==
    ( /\ http.state = "done"
      /\ http.outcome[1].content_type = "application/json"
      /\ http.outcome[1].body.decodes
      /\ http.outcome[1].body.error = <<"True">>
      /\ http.outcome[1].body.error_message # <<>> ) =>
        /\ http.outcome[2].kind = "raises"
        /\ Contains(http.outcome[2].message, http.outcome[1].body.error_message)

\* the events that read or write the file the caller named: the commands of
\* read_kasm_file and write_kasm_file, and the local open of get_session_screenshot
TouchesCallerPath(e) ==
    \/ e.ev = "open"
    \/ e.ev = "exec_command" /\ tool \in {"read_kasm_file", "write_kasm_file"}

\* C27: a handler reads or writes the file path its caller gave, through a
\* remote command or on the server itself, only after a validation of that path
\* in the same invocation has allowed it; this holds for the save_to_file path
\* of get_session_screenshot too
C27_NoUnvalidatedPath ==
    \A i \in 1..Len(events) :
        TouchesCallerPath(events[i]) =>
            /\ \E j \in 1..(i - 1) : events[j].ev = "validate" /\ events[j].ok
            /\ call.op = "validate_file_operation"
            /\ call.ret = Allow
            /\ call.path = IF events[i].ev = "open" THEN req.save_to_file
                           ELSE req.file_path

\* a working directory was given and lies outside every root
WorkingDirOutside ==
    /\ call.working_dir \notin {None, <<>>}
    /\ ~Contained(call.working_dir)

\* C28: validate_command reports the first failing check in the order blocked
\* command, dangerous pattern, working directory: a blocked command that also
\* holds a pattern or comes with an outside working directory is denied with
\* BlockedCommand, and any other command that holds a pattern and comes with an
\* outside working directory is denied with DangerousPattern
C28_FirstFailingCheck ==
    IsValidateCommand =>
        /\ ( /\ FirstWord(call.command) \in BlockedCommands
             /\ HasShellPattern(call.command) \/ WorkingDirOutside ) =>
               call.ret.kind = "BlockedCommand"
        /\ ( /\ FirstWord(call.command) \notin BlockedCommands
             /\ HasShellPattern(call.command)
             /\ WorkingDirOutside ) =>
               call.ret.kind = "DangerousPattern"

\* the stretches of a command that stand between an opening single quote and
\* the next single quote: what the shell takes as single-quoted text
QuotePositions(command) == { i \in 1..Len(command) : command[i] = "'" }

SingleQuoted(command) ==
    { SubSeq(command, i + 1, j - 1) :
          <<i, j>> \in { ij \in QuotePositions(command) \X QuotePositions(command) :
                /\ ij[1] < ij[2]
                /\ \A k \in QuotePositions(command) : ~(ij[1] < k /\ k < ij[2])
                /\ Cardinality({ k \in QuotePositions(command) : k < ij[1] }) % 2 = 0 } }

\* C29: in every command that read_kasm_file and write_kasm_file pass to
\* exec_command the file path stands whole inside one single-quoted argument,
\* and the command has no single quote left open
C29_PathStaysQuoted ==
    \A i \in 1..Len(events) :
        (events[i].ev = "exec_command" /\ tool \in {"read_kasm_file", "write_kasm_file"}) =>
            /\ req.file_path \in SingleQuoted(events[i].command)
            /\ Cardinality(QuotePositions(events[i].command)) % 2 = 0

\* the shell metacharacters of the list
MetaPatterns == ShellPatterns \ Traversal

\* C30: validate_command denies with DangerousPattern every command whose text
\* holds one of | ; && || ` $( ${ >> > <, whatever its name, the root set and
\* the working directory, also a redirection into a file inside a root
C30_MetacharacterDenied ==
    (IsValidateCommand /\ \E p \in MetaPatterns : Contains(call.command, p)) =>
        /\ call.ret.kind = "DangerousPattern"
        /\ Contains(call.command, call.ret.detail)

\* C30 witness: echo x > /home/kasm-user/out, run in /home/kasm-user with that
\* root, is denied for its >
C30_Witness ==
    /\ IsValidateCommand
    /\ call.command = <<"echo", " ", "x", " ", ">", " ">> \o HomeDir \o <<"/", "out">>
    /\ call.working_dir = HomeDir
    /\ call.before = {Resolve(HomeDir)}
    /\ call.ret = Deny("DangerousPattern", <<">">>)

====
